---- MODULE Spec2Model ----
(***************************************************************************)
(* A model of the token validation engine (TokenValidator) and of the      *)
(* public-client token acquisition orchestrator (PublicClientApplication). *)
(*                                                                         *)
(* Every async function is modelled by its suspension points: one action   *)
(* per stretch of code that runs between two awaits.                       *)
(***************************************************************************)
EXTENDS Integers, Sequences, FiniteSets, TLC

\* Longest validIssuers / validAudiences list the caller hands in.
MaxListLen == 2

\* The longest Authorization header, in words and spaces.
MaxHeaderItems == 4

----------------------------------------------------------------------------
(* Values *)

\* The JavaScript value undefined of an optional string.
NoValue == "undefined"

\* An optional value that is not a string: <<>> when absent, <<v>> when set.
None == <<>>
Some(v) == <<v>>
IsSome(o) == o # None
Get(o) == o[1]

\* JavaScript truthiness of an optional string: undefined and "" are falsy.
Truthy(s) == s # NoValue /\ s # ""

SeqsUpTo(S, n) == UNION {[1..k -> S] : k \in 0..n}

----------------------------------------------------------------------------
(* checkHashValue: SHA-256, left half, base64url *)

\* crypto.createHash("sha256").update(content, "ascii").digest() for the
\* authorization codes and access tokens of the model (the digest bytes).
Sha256Digest(content) ==
    CASE content = "code1" ->
           <<179, 95, 69, 149, 230, 75, 73, 43, 174, 99, 78, 83, 174, 108, 237, 183,
             62, 250, 21, 112, 158, 102, 244, 230, 238, 170, 238, 127, 201, 65, 132, 151>>
      [] content = "code2" ->
           <<235, 207, 3, 143, 182, 34, 250, 127, 17, 103, 101, 201, 26, 219, 121, 244,
             205, 73, 192, 60, 93, 10, 23, 204, 94, 202, 128, 144, 217, 15, 112, 200>>
      [] content = "at1" ->
           <<64, 165, 13, 213, 191, 135, 197, 209, 217, 126, 211, 117, 192, 168, 120, 204,
             107, 22, 238, 169, 18, 32, 142, 74, 227, 213, 101, 187, 101, 147, 109, 165>>
      [] content = "at2" ->
           <<3, 30, 163, 134, 225, 8, 32, 152, 31, 164, 186, 113, 57, 19, 240, 59,
             250, 216, 221, 58, 210, 109, 108, 7, 208, 105, 35, 6, 30, 8, 53, 53>>
      [] content = "jHkWEdUXMU1BwAsC4vtUsZwnNvTIxEl0z9K3vx5KF0Y" ->
           <<239, 180, 38, 80, 251, 99, 61, 252, 214, 180, 93, 128, 158, 146, 189, 69,
             106, 87, 173, 105, 107, 121, 199, 91, 45, 76, 137, 12, 134, 251, 75, 164>>
      [] content = "Qcb0Orv1zh30vL1MPRsbm-diHiMwcLyZvn1arpZv-Jxf_11jnpEX3Tgfvk" ->
           <<44, 57, 45, 41, 218, 16, 106, 77, 207, 147, 71, 39, 95, 16, 165, 180,
             24, 63, 172, 47, 247, 76, 165, 27, 244, 226, 228, 229, 242, 142, 246, 224>>
      [] content = "" ->
           <<227, 176, 196, 66, 152, 252, 28, 20, 154, 251, 244, 200, 153, 111, 185, 36,
             39, 174, 65, 228, 100, 155, 147, 76, 164, 149, 153, 27, 120, 82, 184, 85>>

\* The whole digest taken in place of its left half.
LeftHalf_Whole(digest) == digest

\* digest.slice(0, digest.length/2)
LeftHalf(digest) == SubSeq(digest, 1, Len(digest) \div 2)

\* The base64url alphabet; character i of it encodes the 6-bit value i-1.
Base64UrlAlphabet ==
    <<"A","B","C","D","E","F","G","H","I","J","K","L","M","N","O","P",
      "Q","R","S","T","U","V","W","X","Y","Z","a","b","c","d","e","f",
      "g","h","i","j","k","l","m","n","o","p","q","r","s","t","u","v",
      "w","x","y","z","0","1","2","3","4","5","6","7","8","9","-","_">>

B64Char(v) == Base64UrlAlphabet[v + 1]

\* buffer.toString("base64url"): 3 bytes give 4 characters, a tail of 2 bytes
\* gives 3, a tail of 1 byte gives 2, and no "=" padding is written.
RECURSIVE Base64Url(_)
Base64Url(bytes) ==
    IF Len(bytes) = 0 THEN <<>>
    ELSE IF Len(bytes) = 1 THEN
        <<B64Char(bytes[1] \div 4), B64Char((bytes[1] % 4) * 16)>>
    ELSE IF Len(bytes) = 2 THEN
        <<B64Char(bytes[1] \div 4),
          B64Char((bytes[1] % 4) * 16 + bytes[2] \div 16),
          B64Char((bytes[2] % 16) * 4)>>
    ELSE
        <<B64Char(bytes[1] \div 4),
          B64Char((bytes[1] % 4) * 16 + bytes[2] \div 16),
          B64Char((bytes[2] % 16) * 4 + bytes[3] \div 64),
          B64Char(bytes[3] % 64)>>
        \o Base64Url(SubSeq(bytes, 4, Len(bytes)))

\* checkHashValue(content, hashProvided); hashProvided is a sequence of
\* characters.
checkHashValue(content, hashProvided) ==
    hashProvided = Base64Url(LeftHalf(Sha256Digest(content)))

\* The c_hash of authorization code "code1" and the at_hash of access token
\* "at1", as an issuer writes them into an ID token.
CHashOfCode1 ==
    <<"s","1","9","F","l","e","Z","L","S","S","u","u","Y","0","5","T","r","m","z","t","t","w">>
AtHashOfAt1 ==
    <<"Q","K","U","N","1","b","-","H","x","d","H","Z","f","t","N","1","w","K","h","4","z","A">>

----------------------------------------------------------------------------
(* Tokens and validation options *)

\* A claim of a JWT payload that may hold a string, a non-string or nothing.
NoClaim == [type |-> "undefined", val |-> <<>>]
StringClaim(chars) == [type |-> "string", val |-> chars]
NumberClaim == [type |-> "number", val |-> <<"7">>]

\* payload.c_hash && typeof payload.c_hash === "string"
IsTruthyString(claim) == claim.type = "string" /\ claim.val # <<>>

\* A token handed to validateToken: the absent value, the empty string, a
\* string that is no compact JWS, or a compact JWS given by what it decodes
\* to (header fields, whether its signature is genuine, payload claims).
Token(form, sigOk, iss, aud, nonce, c_hash, at_hash) ==
    [form |-> form, alg |-> "RS256", typ |-> "JWT", kid |-> "k1", sigOk |-> sigOk,
     iss |-> iss, aud |-> aud, sub |-> "subA",
     nonce |-> nonce, c_hash |-> c_hash, at_hash |-> at_hash]

NotAJws(form) == Token(form, FALSE, NoValue, NoValue, NoValue, NoClaim, NoClaim)
AbsentToken == NotAJws("absent")
EmptyToken == NotAJws("empty")
MalformedToken == NotAJws("malformed")

\* token.length
TokenLength(t) == IF t.form = "empty" THEN 0 ELSE IF t.form = "malformed" THEN 7 ELSE 120

\* The claims a token carries, with the material the caller supplies for
\* them: [nonce, c_hash, at_hash] and [nonce, code, accessTokenForAtHash].
ClaimSets ==
    [nonce : {NoValue, "n1"},
     c_hash : {NoClaim, StringClaim(CHashOfCode1), NumberClaim},
     at_hash : {NoClaim, StringClaim(AtHashOfAt1), NumberClaim}]
MaterialSets ==
    [nonce : {NoValue, "n1", "n2"},
     code : {NoValue, "code1", "code2"},
     accessTokenForAtHash : {NoValue, "at1", "at2"}]

NoClaims == [nonce |-> NoValue, c_hash |-> NoClaim, at_hash |-> NoClaim]
AllClaims == [nonce |-> "n1", c_hash |-> StringClaim(CHashOfCode1),
              at_hash |-> StringClaim(AtHashOfAt1)]
NoMaterial == [nonce |-> NoValue, code |-> NoValue, accessTokenForAtHash |-> NoValue]
WrongCodeMaterial == [nonce |-> "n1", code |-> "code2", accessTokenForAtHash |-> "at1"]

Options(issuers, audiences, keys, uri, m) ==
    [validIssuers |-> issuers, validAudiences |-> audiences,
     issuerSigningKeys |-> keys, issuerSigningJwksUri |-> uri,
     subject |-> NoValue,
     nonce |-> m.nonce, code |-> m.code, accessTokenForAtHash |-> m.accessTokenForAtHash]

IssuerLists == SeqsUpTo({"", "issA"}, MaxListLen)
AudienceLists == SeqsUpTo({"", "audA"}, MaxListLen)
\* issuerSigningKeys: not set, set to an empty array, set to the key "k1".
KeyOptions == {None, Some(<<>>), Some(<<"k1">>)}
UriOptions == {NoValue, "https://keys.example/jwks"}

\* Inputs that vary what verification sees (token form, signature, issuer,
\* audience, every issuer and audience list, every key source), with no
\* claims or all of them in the token and no material or a wrong code.
VerificationInputs ==
    LET tokens == {AbsentToken, EmptyToken, MalformedToken}
                  \cup {Token("jws", s, i, a, c.nonce, c.c_hash, c.at_hash) :
                          <<s, i, a, c>> \in BOOLEAN \X {"issA", "issB"} \X {"audA", "audB"}
                                             \X {NoClaims, AllClaims}}
    IN  {<<t, Options(il, al, k, u, m)>> :
            <<t, il, al, k, u, m>> \in
                tokens \X IssuerLists \X AudienceLists \X KeyOptions \X UriOptions
                       \X {NoMaterial, WrongCodeMaterial}}

\* Inputs that pass verification from each of the three key sources and vary
\* every claim against every material.
ClaimInputs ==
    {<<Token("jws", TRUE, "issA", "audA", c.nonce, c.c_hash, c.at_hash),
       Options(<<"issA">>, <<"audA">>, ks[1], ks[2], m)>> :
        <<c, m, ks>> \in ClaimSets \X MaterialSets
                          \X {<<Some(<<"k1">>), NoValue>>,
                              <<None, "https://keys.example/jwks">>,
                              <<None, NoValue>>}}

CallInputs == VerificationInputs \cup ClaimInputs

----------------------------------------------------------------------------
(* The functions validateToken calls *)

\* What a call that may throw hands back: the value returned or the error.
Return(v) == [err |-> "none", val |-> Some(v)]
Throw(e) == [err |-> e, val |-> None]

ConfigurationErrors == {"missing_token", "empty_issuer", "empty_audience", "missing_nonce"}
ResolutionErrors == {"discovery_failed", "jwks_fetch_failed"}
VerificationErrors ==
    {"jwt_malformed", "alg_not_allowed", "no_matching_key", "signature_verification_failed",
     "unexpected_typ", "unexpected_iss", "unexpected_sub", "unexpected_aud"}
ClaimsErrors == {"invalid_nonce", "invalid_c_hash", "invalid_at_hash"}

\* The token check without its length test.
IsMissingToken_NoLengthCheck(t) == t.form = "absent"

\* !token || token.length < 1
IsMissingToken(t) == t.form = "absent" \/ TokenLength(t) < 1

\* buildTokenValidationParameters(options): the caller's options laid over
\* the default algorithm and token type.
buildTokenValidationParameters(o) ==
    [validAlgorithms |-> <<"RS256">>, validTypes |-> <<"JWT">>,
     validIssuers |-> o.validIssuers, validAudiences |-> o.validAudiences,
     issuerSigningKeys |-> o.issuerSigningKeys,
     issuerSigningJwksUri |-> o.issuerSigningJwksUri,
     subject |-> o.subject, nonce |-> o.nonce, code |-> o.code,
     accessTokenForAtHash |-> o.accessTokenForAtHash]

\* getJWKS with the JWKS URI tried before the provided keys.
getJWKSSource_UriFirst(vp) ==
    IF Truthy(vp.issuerSigningJwksUri) THEN "remote"
    ELSE IF IsSome(vp.issuerSigningKeys) THEN "local"
    ELSE "discovery"

\* The branch getJWKS takes. An array, empty or not, is a truthy value.
getJWKSSource(vp) ==
    IF IsSome(vp.issuerSigningKeys) THEN "local"
    ELSE IF Truthy(vp.issuerSigningJwksUri) THEN "remote"
    ELSE "discovery"

createLocalJWKSet(keys) == [kind |-> "local", keys |-> keys, uri |-> NoValue]
createRemoteJWKSet(uri) == [kind |-> "remote", keys |-> <<>>, uri |-> uri]

\* The jwks_uri of the issuer's discovery document.
DiscoveredJwksUri == "https://issuer.example/discovery/keys"
\* The keys a JWKS endpoint serves.
RemoteJwksKeys(uri) == <<"k1">>

\* setIssuerParams handing on the first issuer alone.
setIssuerParams_FirstOnly(o) ==
    IF Len(o.validIssuers) < 1 \/ Len(o.validIssuers[1]) < 1
    THEN Throw("empty_issuer")
    ELSE Return(<<o.validIssuers[1]>>)

\* setIssuerParams(options)
setIssuerParams(o) ==
    IF Len(o.validIssuers) < 1 \/ Len(o.validIssuers[1]) < 1
    THEN Throw("empty_issuer")
    ELSE Return(o.validIssuers)

\* setAudienceParams(options)
setAudienceParams(o) ==
    IF Len(o.validAudiences) < 1 \/ Len(o.validAudiences[1]) < 1
    THEN Throw("empty_audience")
    ELSE Return(o.validAudiences)

\* The JWTVerifyOptions literal of validateToken, once both lists are set.
JwtVerifyParams(vp, issuer, audience) ==
    [algorithms |-> vp.validAlgorithms, issuer |-> issuer, audience |-> audience,
     subject |-> vp.subject, typ |-> vp.validTypes[1]]

Range(seq) == {seq[i] : i \in 1..Len(seq)}

ProtectedHeader(t) == [alg |-> t.alg, typ |-> t.typ, kid |-> t.kid]
Payload(t) == [iss |-> t.iss, aud |-> t.aud, sub |-> t.sub,
               nonce |-> t.nonce, c_hash |-> t.c_hash, at_hash |-> t.at_hash]

\* jwtVerify(token, jwks, jwtVerifyParams) with the keys the key set yields:
\* the compact JWS is parsed, its algorithm checked, the key looked up and
\* the signature verified, then typ, iss, sub and aud are checked.
jwtVerify(t, keys, p) ==
    IF t.form # "jws" THEN Throw("jwt_malformed")
    ELSE IF t.alg \notin Range(p.algorithms) THEN Throw("alg_not_allowed")
    ELSE IF t.kid \notin Range(keys) THEN Throw("no_matching_key")
    ELSE IF ~t.sigOk THEN Throw("signature_verification_failed")
    ELSE IF t.typ # p.typ THEN Throw("unexpected_typ")
    ELSE IF t.iss \notin Range(p.issuer) THEN Throw("unexpected_iss")
    ELSE IF Truthy(p.subject) /\ t.sub # p.subject THEN Throw("unexpected_sub")
    ELSE IF t.aud \notin Range(p.audience) THEN Throw("unexpected_aud")
    ELSE Return([payload |-> Payload(t), protectedHeader |-> ProtectedHeader(t)])

\* The state of the promise validateClaims returns.
ClaimsNotStarted == [state |-> "not_started", error |-> "none"]
ClaimsAwaiting(what) == [state |-> what, error |-> "none"]
ClaimsFulfilled == [state |-> "fulfilled", error |-> "none"]
ClaimsRejected(e) == [state |-> "rejected", error |-> e]

\* validateClaims from "Validate at_hash" on, up to the await of
\* checkHashValue.
validateClaimsAtHash(payload, vp) ==
    IF IsTruthyString(payload.at_hash) /\ Truthy(vp.accessTokenForAtHash)
    THEN ClaimsAwaiting("await_at_hash")
    ELSE ClaimsFulfilled

\* The c_hash rule throwing when the code is not supplied.
validateClaimsCHash_Strict(payload, vp) ==
    IF IsTruthyString(payload.c_hash)
    THEN IF ~Truthy(vp.code) THEN ClaimsRejected("invalid_c_hash")
         ELSE ClaimsAwaiting("await_c_hash")
    ELSE validateClaimsAtHash(payload, vp)

\* validateClaims from "Validate c_hash" on, up to its first await.
validateClaimsCHash(payload, vp) ==
    IF IsTruthyString(payload.c_hash) /\ Truthy(vp.code)
    THEN ClaimsAwaiting("await_c_hash")
    ELSE validateClaimsAtHash(payload, vp)

\* validateClaims from its call up to its first await: the nonce rule, which
\* throws inside the async function and so rejects its promise.
validateClaimsStart(payload, vp) ==
    IF Truthy(payload.nonce)
    THEN IF ~Truthy(vp.nonce) THEN ClaimsRejected("missing_nonce")
         ELSE IF vp.nonce = payload.nonce THEN validateClaimsCHash(payload, vp)
         ELSE ClaimsRejected("invalid_nonce")
    ELSE validateClaimsCHash(payload, vp)

\* validateClaims after the await of checkHashValue(code, c_hash).
validateClaimsAfterCHash(payload, vp) ==
    IF ~checkHashValue(vp.code, payload.c_hash.val)
    THEN ClaimsRejected("invalid_c_hash")
    ELSE validateClaimsAtHash(payload, vp)

\* validateClaims after the await of checkHashValue(accessToken, at_hash).
validateClaimsAfterAtHash(payload, vp) ==
    IF ~checkHashValue(vp.accessTokenForAtHash, payload.at_hash.val)
    THEN ClaimsRejected("invalid_at_hash")
    ELSE ClaimsFulfilled

\* What the caller of validateToken gets.
Pending == [kind |-> "pending", error |-> "none", result |-> None]
Rejects(e) == [kind |-> "error", error |-> e, result |-> None]
Resolves(r) == [kind |-> "result", error |-> "none", result |-> Some(r)]

TokenValidationResponse(t, verified, vp) ==
    [protectedHeader |-> verified.protectedHeader, payload |-> verified.payload,
     token |-> t, tokenType |-> vp.validTypes[1]]

----------------------------------------------------------------------------
(* validateToken as a state machine, one record of state per call *)

VARIABLES
    pc,               \* where each validateToken call stands
    token,            \* its token argument
    options,          \* its options argument
    validationParams, \* its BaseValidationParameters, once built
    jwks,             \* the key set getJWKS returned to it
    jwtVerifyParams,  \* the JWTVerifyOptions it handed to jwtVerify
    jwt,              \* the { payload, protectedHeader } jwtVerify returned to it
    outcome,          \* what its caller got: nothing yet, a result, an error
    claims,           \* the promise of its validateClaims call
    net,              \* every network request issued, in order
    responses         \* every answer the network gave, in order

valVars ==
    <<pc, token, options, validationParams, jwks, jwtVerifyParams, jwt, outcome, claims, net,
      responses>>

\* The state of the acquisition calls (their actions are further down).
VARIABLES
    acqPc,        \* where each acquireTokenBy... call stands
    acqApi,       \* which of the two functions it is
    validRequest, \* the request merged with the base request
    configBuilds, \* how often it called buildOauthClientConfiguration
    clientCalls,  \* how often it called the grant client's acquireToken
    telemetry,    \* the errors cached on its ServerTelemetryManager
    acqOutcome,   \* what its caller got
    clientConfig, \* the client configuration buildOauthClientConfiguration gave it
    raised        \* the error its configuration build or grant client raised

acqVars ==
    <<acqPc, acqApi, validRequest, configBuilds, clientCalls, telemetry, acqOutcome,
      clientConfig, raised>>

\* One checkHashValue call, and the fields of the TokenValidator the calls
\* run on.
VARIABLES
    hashContent,  \* the content argument
    hashProvided, \* the hashProvided argument
    hashResult,   \* what the call's promise resolved to, once called
    validator     \* config, logger, networkInterface, openIdConfigProvider

hashVars == <<hashContent, hashProvided, hashResult>>

\* One validateTokenFromRequest call and the middleware around it.
VARIABLES
    req,          \* the request argument
    reqPc,        \* where the validateTokenFromRequest call stands
    reqValidated, \* the strings it handed to validateToken, in order
    reqOutcome,   \* what its promise settled with
    mwPc,         \* where the middleware's promise chain stands
    nextCalls     \* the arguments next was called with, in order

reqVars == <<req, reqPc, reqValidated, reqOutcome>>
mwVars == <<mwPc, nextCalls>>

\* One validateTokenFromResponse call.
VARIABLES
    response,     \* the response argument
    respOptions,  \* the options argument
    respPc,       \* where the call stands
    respList,     \* validateResponse, the list it pushes results onto
    respOutcome   \* what its promise settled with

respVars == <<response, respOptions, respPc, respList, respOutcome>>

\* What the actions of a validateToken or acquireTokenBy... call leave alone.
layerVars == <<hashVars, validator, reqVars, mwVars, respVars>>

vars == <<valVars, acqVars, layerVars>>

CallIds == DOMAIN pc

InitCalls(ids) ==
    /\ pc = [c \in ids |-> "idle"]
    /\ token = [c \in ids |-> AbsentToken]
    /\ options = [c \in ids |-> Options(<<>>, <<>>, None, NoValue, NoMaterial)]
    /\ validationParams = [c \in ids |-> None]
    /\ jwks = [c \in ids |-> None]
    /\ jwtVerifyParams = [c \in ids |-> None]
    /\ jwt = [c \in ids |-> None]
    /\ outcome = [c \in ids |-> Pending]
    /\ claims = [c \in ids |-> ClaimsNotStarted]
    /\ net = <<>>
    /\ responses = <<>>

Request(c, kind, url) == [call |-> c, kind |-> kind, url |-> url]

\* The answer to a request of call c: the fetch succeeded or failed.
Response(c, kind, ok) == [call |-> c, kind |-> kind, ok |-> ok]

\* The settled value kept where every call of the validator reads it.
Settle_Shared(c, o) ==
    /\ pc' = [pc EXCEPT ![c] = "done"]
    /\ outcome' = [d \in DOMAIN outcome |-> o]

\* The call ends: its promise settles.
Settle(c, o) ==
    /\ pc' = [pc EXCEPT ![c] = "done"]
    /\ outcome' = [outcome EXCEPT ![c] = o]

\* validateToken(token, options) up to its first await: the token check and
\* the call of buildTokenValidationParameters.
validateToken(c, t, o) ==
    /\ pc[c] = "idle"
    /\ token' = [token EXCEPT ![c] = t]
    /\ options' = [options EXCEPT ![c] = o]
    /\ IF IsMissingToken(t)
       THEN /\ Settle(c, Rejects("missing_token"))
            /\ UNCHANGED validationParams
       ELSE /\ validationParams' =
                   [validationParams EXCEPT ![c] = Some(buildTokenValidationParameters(o))]
            /\ pc' = [pc EXCEPT ![c] = "await_build"]
            /\ UNCHANGED outcome
    /\ UNCHANGED <<jwks, jwtVerifyParams, jwt, claims, net, responses>>
    /\ UNCHANGED acqVars

\* After the parameters are built: the call of getJWKS up to its first
\* await. Only the discovery branch issues a request here.
getJWKS(c) ==
    /\ pc[c] = "await_build"
    /\ LET vp == Get(validationParams[c])
           source == getJWKSSource(vp)
       IN  CASE source = "local" ->
                  /\ jwks' = [jwks EXCEPT ![c] = Some(createLocalJWKSet(Get(vp.issuerSigningKeys)))]
                  /\ pc' = [pc EXCEPT ![c] = "await_jwks"]
                  /\ UNCHANGED net
             [] source = "remote" ->
                  /\ jwks' = [jwks EXCEPT ![c] = Some(createRemoteJWKSet(vp.issuerSigningJwksUri))]
                  /\ pc' = [pc EXCEPT ![c] = "await_jwks"]
                  /\ UNCHANGED net
             [] source = "discovery" ->
                  /\ net' = Append(net, Request(c, "discovery", "well-known"))
                  /\ pc' = [pc EXCEPT ![c] = "await_discovery"]
                  /\ UNCHANGED jwks
    /\ UNCHANGED <<token, options, validationParams, jwtVerifyParams, jwt, outcome, claims,
                   responses>>
    /\ UNCHANGED acqVars

\* getJWKS going on with a fixed JWKS location when the discovery fetch
\* fails.
fetchJwksUriFromEndpoint_Fallback(c, ok) ==
    /\ pc[c] = "await_discovery"
    /\ responses' = Append(responses, Response(c, "discovery", ok))
    /\ jwks' = [jwks EXCEPT ![c] = Some(createRemoteJWKSet(DiscoveredJwksUri))]
    /\ pc' = [pc EXCEPT ![c] = "await_jwks"]
    /\ UNCHANGED <<token, options, validationParams, jwtVerifyParams, jwt, outcome, claims, net>>
    /\ UNCHANGED acqVars

\* fetchJwksUriFromEndpoint settles: with the jwks_uri of the discovery
\* document, or with an error that getJWKS and validateToken pass on.
fetchJwksUriFromEndpoint(c, ok) ==
    /\ pc[c] = "await_discovery"
    /\ responses' = Append(responses, Response(c, "discovery", ok))
    /\ IF ok
       THEN /\ jwks' = [jwks EXCEPT ![c] = Some(createRemoteJWKSet(DiscoveredJwksUri))]
            /\ pc' = [pc EXCEPT ![c] = "await_jwks"]
            /\ UNCHANGED outcome
       ELSE /\ Settle(c, Rejects("discovery_failed"))
            /\ UNCHANGED jwks
    /\ UNCHANGED <<token, options, validationParams, jwtVerifyParams, jwt, claims, net>>
    /\ UNCHANGED acqVars

\* jwtVerify asks a remote key set for the key of a token it could parse.
FetchesJwks(t, keySet, p) ==
    /\ keySet.kind = "remote"
    /\ t.form = "jws"
    /\ t.alg \in Range(p.algorithms)

\* After getJWKS returned: the JWTVerifyOptions literal (setIssuerParams, then
\* setAudienceParams) and the call of jwtVerify.
buildJwtVerifyParams(c) ==
    /\ pc[c] = "await_jwks"
    /\ LET vp == Get(validationParams[c])
           issuer == setIssuerParams(options[c])
           audience == setAudienceParams(options[c])
       IN  IF issuer.err # "none"
           THEN /\ Settle(c, Rejects(issuer.err))
                /\ UNCHANGED <<jwtVerifyParams, net>>
           ELSE IF audience.err # "none"
           THEN /\ Settle(c, Rejects(audience.err))
                /\ UNCHANGED <<jwtVerifyParams, net>>
           ELSE LET p == JwtVerifyParams(vp, Get(issuer.val), Get(audience.val))
                IN  /\ jwtVerifyParams' = [jwtVerifyParams EXCEPT ![c] = Some(p)]
                    /\ pc' = [pc EXCEPT ![c] = "await_verify"]
                    /\ net' = IF FetchesJwks(token[c], Get(jwks[c]), p)
                              THEN Append(net, Request(c, "jwks", Get(jwks[c]).uri))
                              ELSE net
                    /\ UNCHANGED outcome
    /\ UNCHANGED <<token, options, validationParams, jwks, jwt, claims, responses>>
    /\ UNCHANGED acqVars

\* The claims of the decoded payload checked whatever jwtVerify says.
verified_ClaimsFirst(c, fetchOk) ==
    /\ pc[c] = "await_verify"
    /\ LET vp == Get(validationParams[c])
           keySet == Get(jwks[c])
           p == Get(jwtVerifyParams[c])
           fetches == FetchesJwks(token[c], keySet, p)
           keys == IF keySet.kind = "local" THEN keySet.keys ELSE RemoteJwksKeys(keySet.uri)
           v == IF fetches /\ ~fetchOk THEN Throw("jwks_fetch_failed")
                ELSE jwtVerify(token[c], keys, p)
       IN  /\ fetches \/ fetchOk
           /\ responses' = IF fetches THEN Append(responses, Response(c, "jwks", fetchOk))
                           ELSE responses
           /\ claims' = [claims EXCEPT ![c] = validateClaimsStart(Payload(token[c]), vp)]
           /\ IF v.err # "none"
              THEN /\ Settle(c, Rejects(v.err))
                   /\ UNCHANGED jwt
              ELSE /\ jwt' = [jwt EXCEPT ![c] = v.val]
                   /\ Settle(c, Resolves(TokenValidationResponse(token[c], Get(v.val), vp)))
    /\ UNCHANGED <<token, options, validationParams, jwks, jwtVerifyParams, net>>
    /\ UNCHANGED acqVars

\* jwtVerify settles. On success validateClaims is called, its promise is
\* dropped, and the response is returned.
verified(c, fetchOk) ==
    /\ pc[c] = "await_verify"
    /\ LET vp == Get(validationParams[c])
           keySet == Get(jwks[c])
           p == Get(jwtVerifyParams[c])
           fetches == FetchesJwks(token[c], keySet, p)
           keys == IF keySet.kind = "local" THEN keySet.keys ELSE RemoteJwksKeys(keySet.uri)
           v == IF fetches /\ ~fetchOk THEN Throw("jwks_fetch_failed")
                ELSE jwtVerify(token[c], keys, p)
       IN  /\ fetches \/ fetchOk
           /\ responses' = IF fetches THEN Append(responses, Response(c, "jwks", fetchOk))
                           ELSE responses
           /\ IF v.err # "none"
              THEN /\ Settle(c, Rejects(v.err))
                   /\ UNCHANGED <<jwt, claims>>
              ELSE /\ jwt' = [jwt EXCEPT ![c] = v.val]
                   /\ claims' = [claims EXCEPT ![c] = validateClaimsStart(Get(v.val).payload, vp)]
                   /\ Settle(c, Resolves(TokenValidationResponse(token[c], Get(v.val), vp)))
    /\ UNCHANGED <<token, options, validationParams, jwks, jwtVerifyParams, net>>
    /\ UNCHANGED acqVars

\* validateClaims goes on after an await of checkHashValue.
validateClaims(c) ==
    /\ claims[c].state \in {"await_c_hash", "await_at_hash"}
    /\ LET vp == Get(validationParams[c])
           payload == Get(jwt[c]).payload
       IN  claims' = [claims EXCEPT ![c] =
                        IF claims[c].state = "await_c_hash"
                        THEN validateClaimsAfterCHash(payload, vp)
                        ELSE validateClaimsAfterAtHash(payload, vp)]
    /\ UNCHANGED <<pc, token, options, validationParams, jwks, jwtVerifyParams, jwt, outcome, net,
                   responses>>
    /\ UNCHANGED acqVars

----------------------------------------------------------------------------
(* acquireTokenByDeviceCode and acquireTokenByUsernamePassword *)


AcquireIds == DOMAIN acqPc

\* DeviceCodeRequest / UsernamePasswordRequest: the fields the orchestrator
\* reads or merges.
Requests ==
    [authority : {NoValue, "https://login.example/tenantA", "https://login.example/tenantB"},
     correlationId : {NoValue, "corr-caller"},
     scopes : {<<>>, <<"user.read">>}]

NoRequest == [authority |-> NoValue, correlationId |-> NoValue, scopes |-> <<>>]

\* initializeBaseRequest(request): the authority and correlation id the
\* request names, or the application's authority and a fresh correlation id.
initializeBaseRequest(request) ==
    [authority |-> IF Truthy(request.authority) THEN request.authority
                   ELSE "https://login.example/common",
     correlationId |-> IF Truthy(request.correlationId) THEN request.correlationId
                       ELSE "corr-generated",
     scopes |-> request.scopes]

\* { ...request, ...this.initializeBaseRequest(request) }
MergeRequest(request) ==
    LET base == initializeBaseRequest(request)
    IN  [authority |-> base.authority, correlationId |-> base.correlationId,
         scopes |-> base.scopes]

\* The ways buildOauthClientConfiguration fails and the ways a grant client's
\* acquireToken fails.
ConfigErrors == {"endpoints_resolution_error"}
GrantErrors == {"device_code_expired", "invalid_grant"}
AuthResults == {"AuthenticationResult", "null"}

\* The configuration buildOauthClientConfiguration resolves with for the
\* authority of the request.
ClientConfiguration(request) == [authority |-> request.authority]

AcqPending == [kind |-> "pending", value |-> "none"]
AcqResolves(r) == [kind |-> "result", value |-> r]
AcqRejects(e) == [kind |-> "error", value |-> e]

InitAcquire(ids) ==
    /\ acqPc = [a \in ids |-> "idle"]
    /\ acqApi = [a \in ids |-> "none"]
    /\ validRequest = [a \in ids |-> NoRequest]
    /\ configBuilds = [a \in ids |-> 0]
    /\ clientCalls = [a \in ids |-> 0]
    /\ telemetry = [a \in ids |-> <<>>]
    /\ acqOutcome = [a \in ids |-> AcqPending]
    /\ clientConfig = [a \in ids |-> None]
    /\ raised = [a \in ids |-> "none"]

\* The catch block throwing a wrapping error in place of the one caught.
CatchAndRethrow_Wrapped(a, e) ==
    /\ telemetry' = [telemetry EXCEPT ![a] = Append(@, e)]
    /\ acqPc' = [acqPc EXCEPT ![a] = "failed"]
    /\ acqOutcome' = [acqOutcome EXCEPT ![a] = AcqRejects("acquisition_error")]

\* catch (e) { serverTelemetryManager.cacheFailedRequest(e); throw e; }
CatchAndRethrow(a, e) ==
    /\ telemetry' = [telemetry EXCEPT ![a] = Append(@, e)]
    /\ acqPc' = [acqPc EXCEPT ![a] = "failed"]
    /\ acqOutcome' = [acqOutcome EXCEPT ![a] = AcqRejects(e)]

\* Either function up to its await: the request is merged, the telemetry
\* manager created and buildOauthClientConfiguration called.
acquireTokenStart(a, api, request) ==
    /\ acqPc[a] = "idle"
    /\ acqApi' = [acqApi EXCEPT ![a] = api]
    /\ validRequest' = [validRequest EXCEPT ![a] = MergeRequest(request)]
    /\ configBuilds' = [configBuilds EXCEPT ![a] = @ + 1]
    /\ acqPc' = [acqPc EXCEPT ![a] = "building_config"]
    /\ UNCHANGED <<clientCalls, telemetry, acqOutcome, clientConfig, raised>>
    /\ UNCHANGED valVars

acquireTokenByDeviceCode(a, request) ==
    acquireTokenStart(a, "acquireTokenByDeviceCode", request)

acquireTokenByUsernamePassword(a, request) ==
    acquireTokenStart(a, "acquireTokenByUsernamePassword", request)

\* buildOauthClientConfiguration rejects: the await throws inside the try.
buildOauthClientConfigurationFails(a, e) ==
    /\ acqPc[a] = "building_config"
    /\ raised' = [raised EXCEPT ![a] = e]
    /\ CatchAndRethrow(a, e)
    /\ UNCHANGED <<acqApi, validRequest, configBuilds, clientCalls, clientConfig>>
    /\ UNCHANGED valVars

\* buildOauthClientConfiguration resolves: the grant client is constructed
\* and "return client.acquireToken(validRequest)" runs. A throw of that call
\* is caught; the promise it returns is handed on without an await, so the
\* try block is left before that promise settles.
dispatch(a, thrown) ==
    /\ acqPc[a] = "building_config"
    /\ clientConfig' = [clientConfig EXCEPT ![a] = Some(ClientConfiguration(validRequest[a]))]
    /\ clientCalls' = [clientCalls EXCEPT ![a] = @ + 1]
    /\ IF thrown = "none"
       THEN /\ acqPc' = [acqPc EXCEPT ![a] = "dispatched"]
            /\ UNCHANGED <<telemetry, acqOutcome, raised>>
       ELSE /\ raised' = [raised EXCEPT ![a] = thrown]
            /\ CatchAndRethrow(a, thrown)
    /\ UNCHANGED <<acqApi, validRequest, configBuilds>>
    /\ UNCHANGED valVars

\* The call going back to build the configuration again when the grant
\* client's promise rejects.
grantClientSettles_Retry(a, o) ==
    /\ acqPc[a] = "dispatched"
    /\ IF o.kind = "error"
       THEN /\ acqPc' = [acqPc EXCEPT ![a] = "building_config"]
            /\ configBuilds' = [configBuilds EXCEPT ![a] = @ + 1]
            /\ UNCHANGED acqOutcome
       ELSE /\ acqPc' = [acqPc EXCEPT ![a] = "succeeded"]
            /\ acqOutcome' = [acqOutcome EXCEPT ![a] = o]
            /\ UNCHANGED configBuilds
    /\ raised' = [raised EXCEPT ![a] = IF o.kind = "error" THEN o.value ELSE @]
    /\ UNCHANGED <<acqApi, validRequest, clientCalls, telemetry, clientConfig>>
    /\ UNCHANGED valVars

\* The grant client's promise settles and with it the caller's.
grantClientSettles(a, o) ==
    /\ acqPc[a] = "dispatched"
    /\ acqPc' = [acqPc EXCEPT ![a] = IF o.kind = "error" THEN "failed" ELSE "succeeded"]
    /\ acqOutcome' = [acqOutcome EXCEPT ![a] = o]
    /\ raised' = [raised EXCEPT ![a] = IF o.kind = "error" THEN o.value ELSE @]
    /\ UNCHANGED <<acqApi, validRequest, configBuilds, clientCalls, telemetry, clientConfig>>
    /\ UNCHANGED valVars

----------------------------------------------------------------------------
(* Specifications *)

\* An HTTP request as validateTokenFromRequest reads it: the Authorization
\* header, absent or a string given as its words and the spaces between
\* them, and the access_token of the body, absent or a string.
HttpRequest(authorization, access_token) ==
    [authorization |-> authorization, access_token |-> access_token]

NoHttpRequest == HttpRequest(None, None)

\* A token response as validateTokenFromResponse reads it.
TokenResponse(token_type, id_token, access_token) ==
    [token_type |-> token_type, id_token |-> id_token, access_token |-> access_token]

NoTokenResponse == TokenResponse(NoValue, None, None)

\* The fields the constructor sets.
TokenValidatorFields ==
    [config |-> "configuration", logger |-> "logger", networkInterface |-> "networkInterface",
     openIdConfigProvider |-> "openIdConfigProvider"]

\* No checkHashValue call of its own.
InitLayers ==
    /\ hashContent = ""
    /\ hashProvided = <<>>
    /\ hashResult = None
    /\ validator = TokenValidatorFields
    /\ req = NoHttpRequest
    /\ reqPc = "idle"
    /\ reqValidated = <<>>
    /\ reqOutcome = Pending
    /\ mwPc = "idle"
    /\ nextCalls = <<>>
    /\ response = NoTokenResponse
    /\ respOptions = Options(<<>>, <<>>, None, NoValue, NoMaterial)
    /\ respPc = "idle"
    /\ respList = <<>>
    /\ respOutcome = Pending

Init == InitCalls({1}) /\ InitAcquire({1}) /\ InitLayers

Next ==
    \/ \E c \in CallIds :
          /\ pc[c] = "idle"
          /\ \E in \in CallInputs : validateToken(c, in[1], in[2])
          /\ UNCHANGED layerVars
    \/ \E c \in CallIds : getJWKS(c) /\ UNCHANGED layerVars
    \/ \E c \in CallIds, ok \in BOOLEAN : fetchJwksUriFromEndpoint(c, ok) /\ UNCHANGED layerVars
    \/ \E c \in CallIds : buildJwtVerifyParams(c) /\ UNCHANGED layerVars
    \/ \E c \in CallIds, fetchOk \in BOOLEAN : verified(c, fetchOk) /\ UNCHANGED layerVars
    \/ \E c \in CallIds : validateClaims(c) /\ UNCHANGED layerVars

\* One validateToken call on one TokenValidator.
Spec == Init /\ [][Next]_vars

NextAcquire ==
    \/ \E a \in AcquireIds, request \in Requests :
          acquireTokenByDeviceCode(a, request) /\ UNCHANGED layerVars
    \/ \E a \in AcquireIds, request \in Requests :
          acquireTokenByUsernamePassword(a, request) /\ UNCHANGED layerVars
    \/ \E a \in AcquireIds, e \in ConfigErrors :
          buildOauthClientConfigurationFails(a, e) /\ UNCHANGED layerVars
    \/ \E a \in AcquireIds, thrown \in {"none"} \cup GrantErrors :
          dispatch(a, thrown) /\ UNCHANGED layerVars
    \/ \E a \in AcquireIds, r \in AuthResults :
          grantClientSettles(a, AcqResolves(r)) /\ UNCHANGED layerVars
    \/ \E a \in AcquireIds, e \in GrantErrors :
          grantClientSettles(a, AcqRejects(e)) /\ UNCHANGED layerVars

\* One acquireTokenBy... call on one PublicClientApplication.
SpecAcquire == Init /\ [][NextAcquire]_vars

\* The inputs of two calls that run at once: tokens that verify or not, with
\* each key source and with a list that fails the call before verification.
ConcurrentInputs ==
    LET tokens == {EmptyToken,
                   Token("jws", TRUE, "issA", "audA", "n1", StringClaim(CHashOfCode1), NoClaim),
                   Token("jws", FALSE, "issA", "audA", NoValue, NoClaim, NoClaim),
                   Token("jws", TRUE, "issB", "audA", NoValue, NoClaim, NoClaim)}
        material == [nonce |-> "n1", code |-> "code1", accessTokenForAtHash |-> NoValue]
        opts == {Options(<<"issA">>, <<"audA">>, Some(<<"k1">>), NoValue, material),
                 Options(<<"issA">>, <<"audA">>, None, "https://keys.example/jwks", NoMaterial),
                 Options(<<"issA">>, <<"audA">>, None, NoValue, material),
                 Options(<<>>, <<"audA">>, None, NoValue, NoMaterial)}
    IN  tokens \X opts

InitConcurrent == InitCalls({1, 2}) /\ InitAcquire({1}) /\ InitLayers

NextConcurrent ==
    \/ \E c \in CallIds :
          /\ pc[c] = "idle"
          /\ \E in \in ConcurrentInputs : validateToken(c, in[1], in[2])
          /\ UNCHANGED layerVars
    \/ \E c \in CallIds : getJWKS(c) /\ UNCHANGED layerVars
    \/ \E c \in CallIds, ok \in BOOLEAN : fetchJwksUriFromEndpoint(c, ok) /\ UNCHANGED layerVars
    \/ \E c \in CallIds : buildJwtVerifyParams(c) /\ UNCHANGED layerVars
    \/ \E c \in CallIds, fetchOk \in BOOLEAN : verified(c, fetchOk) /\ UNCHANGED layerVars
    \/ \E c \in CallIds : validateClaims(c) /\ UNCHANGED layerVars

\* Two validateToken calls on one TokenValidator, interleaved at their awaits.
SpecConcurrent == InitConcurrent /\ [][NextConcurrent]_vars

----------------------------------------------------------------------------
(* validateTokenFromRequest *)

\* AuthenticationScheme.BEARER
BEARER == "Bearer"

\* The words a header is written with: spellings of schemes, and token
\* strings.
HeaderWords == {"Bearer", "bearer", "BEARER", "Basic", "tokGood", "tokBad"}

\* String.prototype.toLowerCase on those words.
toLowerCase(w) ==
    CASE w \in {"Bearer", "bearer", "BEARER"} -> "bearer"
      [] w = "Basic" -> "basic"
      [] w = "tokGood" -> "tokgood"
      [] w = "tokBad" -> "tokbad"
      [] OTHER -> w

\* authorization.split(" ") on a string given as words and single spaces:
\* every space ends a component, so a leading, trailing or doubled space
\* gives an empty component.
RECURSIVE split(_)
split(h) ==
    IF h = <<>> THEN <<"">>
    ELSE IF Head(h) = " " THEN <<"">> \o split(Tail(h))
    ELSE IF Len(h) = 1 THEN <<Head(h)>>
    ELSE <<Head(h)>> \o split(Tail(Tail(h)))

\* Header strings: words and spaces, no two words without a space between.
IsHeaderString(h) ==
    \A i \in 1..(Len(h) - 1) : h[i] = " " \/ h[i + 1] = " "

HeaderStrings ==
    {h \in SeqsUpTo(HeaderWords \cup {" "}, MaxHeaderItems) : IsHeaderString(h)}

HttpRequests ==
    {HttpRequest(a, b) :
        <<a, b>> \in ({None} \cup {Some(h) : h \in HeaderStrings})
                     \X {None, Some(""), Some("tokGood"), Some("tokBad")}}

\* The token a string of a request stands for.
TokenOf(w) ==
    CASE w = "" -> EmptyToken
      [] w = "tokGood" -> Token("jws", TRUE, "issA", "audA", NoValue, NoClaim, NoClaim)
      [] w = "tokBad" -> Token("jws", FALSE, "issA", "audA", NoValue, NoClaim, NoClaim)
      [] w = "tokOther" -> Token("jws", TRUE, "issA", "audA", NoValue, NumberClaim, NoClaim)
      [] OTHER -> MalformedToken

\* The options a request or response is validated with: keys provided, or
\* keys found by discovery.
LayerOptions ==
    {Options(<<"issA">>, <<"audA">>, Some(<<"k1">>), NoValue, NoMaterial),
     Options(<<"issA">>, <<"audA">>, None, NoValue, NoMaterial)}

\* if (request.body && request.body.access_token) { ... if (token) ... }
BodyToken(r) ==
    IF IsSome(r.access_token) /\ Get(r.access_token) # ""
    THEN r.access_token
    ELSE None

\* The body's token preferred to the header's.
RequestToken_BodyFirst(r) ==
    IF IsSome(BodyToken(r)) THEN BodyToken(r)
    ELSE IF IsSome(r.authorization) /\ Get(r.authorization) # <<>>
    THEN LET authComponents == split(Get(r.authorization))
         IN  IF /\ Len(authComponents) = 2
                /\ toLowerCase(authComponents[1]) = toLowerCase(BEARER)
             THEN Some(authComponents[2])
             ELSE None
    ELSE None

\* The string validateTokenFromRequest hands to validateToken, if any: the
\* second component of a two-component Bearer header, else the body's
\* access_token.
RequestToken(r) ==
    IF IsSome(r.authorization) /\ Get(r.authorization) # <<>>
    THEN LET authComponents == split(Get(r.authorization))
         IN  IF /\ Len(authComponents) = 2
                /\ toLowerCase(authComponents[1]) = toLowerCase(BEARER)
             THEN Some(authComponents[2])
             ELSE BodyToken(r)
    ELSE BodyToken(r)

\* validateTokenFromRequest(request, options) up to the first await of the
\* validateToken call it returns, or up to its throw.
validateTokenFromRequest(r, o) ==
    /\ reqPc = "idle"
    /\ req' = r
    /\ LET selected == RequestToken(r)
       IN  IF IsSome(selected)
           THEN /\ validateToken(1, TokenOf(Get(selected)), o)
                /\ reqValidated' = Append(reqValidated, Get(selected))
                /\ reqPc' = "awaiting"
                /\ UNCHANGED reqOutcome
           ELSE /\ reqPc' = "done"
                /\ reqOutcome' = Rejects("no_tokens_in_header_or_body")
                /\ UNCHANGED <<reqValidated, valVars, acqVars>>
    /\ UNCHANGED <<hashVars, validator, respVars>>

\* The promise of validateTokenFromRequest settles as the validateToken
\* promise it returned.
requestSettles ==
    /\ reqPc = "awaiting"
    /\ pc[1] = "done"
    /\ reqPc' = "done"
    /\ reqOutcome' = outcome[1]
    /\ UNCHANGED <<req, reqValidated, valVars, acqVars, hashVars, validator, respVars>>

NextRequest ==
    \/ \E r \in HttpRequests, o \in LayerOptions :
          validateTokenFromRequest(r, o) /\ UNCHANGED mwVars
    \/ requestSettles /\ UNCHANGED mwVars
    \/ \E c \in CallIds : getJWKS(c) /\ UNCHANGED layerVars
    \/ \E c \in CallIds, ok \in BOOLEAN : fetchJwksUriFromEndpoint(c, ok) /\ UNCHANGED layerVars
    \/ \E c \in CallIds : buildJwtVerifyParams(c) /\ UNCHANGED layerVars
    \/ \E c \in CallIds, fetchOk \in BOOLEAN : verified(c, fetchOk) /\ UNCHANGED layerVars

\* One validateTokenFromRequest call on one TokenValidator.
SpecRequest == Init /\ [][NextRequest]_vars

----------------------------------------------------------------------------
(* validateTokenMiddleware *)

\* next() and the error a throwing next callback throws.
NoArgument == "no_argument"
ErrorThrownByNext == "error_thrown_by_next"

\* The middleware function up to its return: validateTokenFromRequest is
\* called and the two handlers are attached to its promise.
middleware(r, o) ==
    /\ mwPc = "idle"
    /\ validateTokenFromRequest(r, o)
    /\ mwPc' = "waiting"
    /\ UNCHANGED nextCalls

\* .then(() => { next(); }) on a fulfilled validateTokenFromRequest. A throw
\* of next rejects the promise the .catch handler is attached to.
thenHandler(nextThrows) ==
    /\ mwPc = "waiting"
    /\ reqPc = "done"
    /\ reqOutcome.kind = "result"
    /\ nextCalls' = Append(nextCalls, NoArgument)
    /\ mwPc' = IF nextThrows THEN "then_rejected" ELSE "done"
    /\ UNCHANGED <<reqVars, valVars, acqVars, hashVars, validator, respVars>>

\* .catch((error) => { next(error); }) on a rejection of
\* validateTokenFromRequest or of the .then handler.
catchHandler(nextThrows) ==
    /\ \/ mwPc = "waiting" /\ reqPc = "done" /\ reqOutcome.kind = "error"
       \/ mwPc = "then_rejected"
    /\ nextCalls' = Append(nextCalls, IF mwPc = "then_rejected" THEN ErrorThrownByNext
                                      ELSE reqOutcome.error)
    /\ mwPc' = "done"
    /\ UNCHANGED <<reqVars, valVars, acqVars, hashVars, validator, respVars>>

NextMiddleware ==
    \/ \E r \in HttpRequests, o \in LayerOptions : middleware(r, o)
    \/ requestSettles /\ UNCHANGED mwVars
    \/ \E nextThrows \in BOOLEAN : thenHandler(nextThrows)
    \/ \E nextThrows \in BOOLEAN : catchHandler(nextThrows)
    \/ \E c \in CallIds : getJWKS(c) /\ UNCHANGED layerVars
    \/ \E c \in CallIds, ok \in BOOLEAN : fetchJwksUriFromEndpoint(c, ok) /\ UNCHANGED layerVars
    \/ \E c \in CallIds : buildJwtVerifyParams(c) /\ UNCHANGED layerVars
    \/ \E c \in CallIds, fetchOk \in BOOLEAN : verified(c, fetchOk) /\ UNCHANGED layerVars

\* One request through the middleware validateTokenMiddleware returns.
SpecMiddleware == Init /\ [][NextMiddleware]_vars

----------------------------------------------------------------------------
(* validateTokenFromResponse *)

TokenResponses ==
    {TokenResponse(tt, id, at) :
        <<tt, id, at>> \in {NoValue, "Bearer", "bearer", "Basic"}
                           \X {None, Some(""), Some("tokGood"), Some("tokBad")}
                           \X {None, Some(""), Some("tokOther"), Some("tokBad")}}

\* if (response.id_token), if (response.access_token): a non-empty string.
Present(field) == IsSome(field) /\ Get(field) # ""

\* return validateResponse
respReturns(list) ==
    /\ respPc' = "done"
    /\ respOutcome' = Resolves(list)

\* A rejected await throws out of the function.
respThrows(e) ==
    /\ respPc' = "done"
    /\ respOutcome' = Rejects(e)

\* validateTokenFromResponse(response, options) up to its first await, or
\* to its end when it awaits nothing.
validateTokenFromResponse(r, o) ==
    /\ respPc = "idle"
    /\ response' = r
    /\ respOptions' = o
    /\ IF r.token_type = BEARER
       THEN IF Present(r.id_token)
            THEN /\ validateToken(1, TokenOf(Get(r.id_token)), o)
                 /\ respPc' = "await_id_token"
                 /\ UNCHANGED <<respList, respOutcome>>
            ELSE IF Present(r.access_token)
            THEN /\ validateToken(2, TokenOf(Get(r.access_token)), o)
                 /\ respPc' = "await_access_token"
                 /\ UNCHANGED <<respList, respOutcome>>
            ELSE /\ respReturns(<<>>)
                 /\ UNCHANGED <<respList, valVars, acqVars>>
       ELSE /\ respThrows("only_bearer_supported")
            /\ UNCHANGED <<respList, valVars, acqVars>>
    /\ UNCHANGED <<hashVars, validator, reqVars, mwVars>>

\* A failed id_token put aside and the access_token validated all the same.
idTokenSettles_Continue ==
    /\ respPc = "await_id_token"
    /\ pc[1] = "done"
    /\ LET list == IF outcome[1].kind = "error" THEN <<>> ELSE <<Get(outcome[1].result)>>
       IN  /\ respList' = list
           /\ IF Present(response.access_token)
              THEN /\ validateToken(2, TokenOf(Get(response.access_token)), respOptions)
                   /\ respPc' = "await_access_token"
                   /\ UNCHANGED respOutcome
              ELSE /\ respReturns(list)
                   /\ UNCHANGED <<valVars, acqVars>>
    /\ UNCHANGED <<response, respOptions, hashVars, validator, reqVars, mwVars>>

\* The await of validateToken(response.id_token) settles: its error is
\* thrown, or its result is pushed and the function goes on to the
\* access_token.
idTokenSettles ==
    /\ respPc = "await_id_token"
    /\ pc[1] = "done"
    /\ IF outcome[1].kind = "error"
       THEN /\ respThrows(outcome[1].error)
            /\ UNCHANGED <<respList, valVars, acqVars>>
       ELSE LET list == Append(respList, Get(outcome[1].result))
            IN  /\ respList' = list
                /\ IF Present(response.access_token)
                   THEN /\ validateToken(2, TokenOf(Get(response.access_token)), respOptions)
                        /\ respPc' = "await_access_token"
                        /\ UNCHANGED respOutcome
                   ELSE /\ respReturns(list)
                        /\ UNCHANGED <<valVars, acqVars>>
    /\ UNCHANGED <<response, respOptions, hashVars, validator, reqVars, mwVars>>

\* The await of validateToken(response.access_token) settles.
accessTokenSettles ==
    /\ respPc = "await_access_token"
    /\ pc[2] = "done"
    /\ IF outcome[2].kind = "error"
       THEN /\ respThrows(outcome[2].error)
            /\ UNCHANGED respList
       ELSE LET list == Append(respList, Get(outcome[2].result))
            IN  /\ respList' = list
                /\ respReturns(list)
    /\ UNCHANGED <<response, respOptions, valVars, acqVars, hashVars, validator, reqVars, mwVars>>

InitResponse == InitCalls({1, 2}) /\ InitAcquire({1}) /\ InitLayers

NextResponse ==
    \/ \E r \in TokenResponses, o \in LayerOptions : validateTokenFromResponse(r, o)
    \/ idTokenSettles
    \/ accessTokenSettles
    \/ \E c \in CallIds : getJWKS(c) /\ UNCHANGED layerVars
    \/ \E c \in CallIds, ok \in BOOLEAN : fetchJwksUriFromEndpoint(c, ok) /\ UNCHANGED layerVars
    \/ \E c \in CallIds : buildJwtVerifyParams(c) /\ UNCHANGED layerVars
    \/ \E c \in CallIds, fetchOk \in BOOLEAN : verified(c, fetchOk) /\ UNCHANGED layerVars

\* One validateTokenFromResponse call on one TokenValidator.
SpecResponse == InitResponse /\ [][NextResponse]_vars

----------------------------------------------------------------------------
(* checkHashValue *)

\* The contents checkHashValue is called with: authorization codes, access
\* tokens (two of them the examples of OpenID Connect Core, A.3 and A.4)
\* and the empty string.
HashContents ==
    {"code1", "code2", "at1", "at2", "",
     "jHkWEdUXMU1BwAsC4vtUsZwnNvTIxEl0z9K3vx5KF0Y",
     "Qcb0Orv1zh30vL1MPRsbm-diHiMwcLyZvn1arpZv-Jxf_11jnpEX3Tgfvk"}

RightHalf(digest) == SubSeq(digest, Len(digest) \div 2 + 1, Len(digest))

\* The same characters in the alphabet of plain base64.
PlainBase64(h) ==
    [i \in DOMAIN h |-> IF h[i] = "-" THEN "+" ELSE IF h[i] = "_" THEN "/" ELSE h[i]]

\* The hashes a token may carry for a content: the one an issuer computes,
\* and near misses of it (padded, plain base64, cut short, of the whole
\* digest, of its right half).
HashesFor(content) ==
    LET digest == Sha256Digest(content)
        h == Base64Url(SubSeq(digest, 1, 16))
    IN  {h, h \o <<"=", "=">>, PlainBase64(h), SubSeq(h, 1, Len(h) - 1),
         Base64Url(digest), Base64Url(RightHalf(digest)), PlainBase64(Base64Url(digest))}

HashCandidates == {<<>>} \cup UNION {HashesFor(content) : content \in HashContents}

InitHash ==
    /\ InitCalls({1})
    /\ InitAcquire({1})
    /\ hashContent \in HashContents
    /\ hashProvided \in HashCandidates
    /\ hashResult = None
    /\ validator = TokenValidatorFields
    /\ req = NoHttpRequest
    /\ reqPc = "idle"
    /\ reqValidated = <<>>
    /\ reqOutcome = Pending
    /\ mwPc = "idle"
    /\ nextCalls = <<>>
    /\ response = NoTokenResponse
    /\ respOptions = Options(<<>>, <<>>, None, NoValue, NoMaterial)
    /\ respPc = "idle"
    /\ respList = <<>>
    /\ respOutcome = Pending

\* await this.checkHashValue(content, hashProvided)
callCheckHashValue ==
    /\ hashResult = None
    /\ hashResult' = Some(checkHashValue(hashContent, hashProvided))
    /\ UNCHANGED <<hashContent, hashProvided, validator, valVars, acqVars>>
    /\ UNCHANGED <<reqVars, mwVars, respVars>>

NextHash == callCheckHashValue

\* One checkHashValue call on one TokenValidator.
SpecHash == InitHash /\ [][NextHash]_vars

----------------------------------------------------------------------------
(* Properties of validateToken *)

Done(c) == pc[c] = "done"

\* The requests a call has issued so far.
RequestsOf(c) == {i \in 1..Len(net) : net[i].call = c}

\* jwtVerify returned a payload to the call.
Verified(c) == IsSome(jwt[c])

\* The payload carries the claim, as a string or not.
HasClaim(claim) == claim.type # "undefined"

\* The three claim rules as the claims validator is meant to decide them.
NonceRuleHolds(payload, vp) ==
    Truthy(payload.nonce) => (Truthy(vp.nonce) /\ vp.nonce = payload.nonce)
CHashRuleHolds(payload, vp) ==
    (IsTruthyString(payload.c_hash) /\ Truthy(vp.code))
        => checkHashValue(vp.code, payload.c_hash.val)
AtHashRuleHolds(payload, vp) ==
    (IsTruthyString(payload.at_hash) /\ Truthy(vp.accessTokenForAtHash))
        => checkHashValue(vp.accessTokenForAtHash, payload.at_hash.val)

\* C1: a verified token whose payload has a nonce, validated with no expected
\* nonce, makes validateToken reject with the missing-nonce error.
C1_MissingNonceRejects ==
    \A c \in CallIds :
        (/\ Done(c)
         /\ Verified(c)
         /\ Truthy(Get(jwt[c]).payload.nonce)
         /\ ~Truthy(Get(validationParams[c]).nonce))
        => outcome[c] = Rejects("missing_nonce")

\* C2: on an otherwise valid token with a string c_hash (at_hash) and the code
\* (access token) supplied, a hash that differs from the claim makes
\* validateToken reject with the invalid-c_hash (invalid-at_hash) error.
C2_HashMismatchRejects ==
    \A c \in CallIds :
        (Done(c) /\ Verified(c)) =>
            LET payload == Get(jwt[c]).payload
                vp == Get(validationParams[c])
            IN  /\ (/\ NonceRuleHolds(payload, vp)
                    /\ ~CHashRuleHolds(payload, vp))
                   => outcome[c] = Rejects("invalid_c_hash")
                /\ (/\ NonceRuleHolds(payload, vp)
                    /\ CHashRuleHolds(payload, vp)
                    /\ ~AtHashRuleHolds(payload, vp))
                   => outcome[c] = Rejects("invalid_at_hash")

C4_AllOrNothing ==
    \A c \in CallIds :
        /\ outcome[c].kind = "result"
           => /\ IsSome(jwks[c])
              /\ Verified(c)
              /\ claims[c].state \notin {"not_started", "rejected"}
        /\ claims[c].state = "rejected" => outcome[c] = Rejects(claims[c].error)

\* C6: with issuerSigningKeys non-empty and issuerSigningJwksUri set, the key
\* set is the local one built from the provided keys and the call issues no
\* request, neither to the discovery endpoint nor to the JWKS URI.
C6_LocalKeysNoNetwork ==
    \A c \in CallIds :
        (/\ pc[c] # "idle"
         /\ IsSome(options[c].issuerSigningKeys)
         /\ Get(options[c].issuerSigningKeys) # <<>>
         /\ Truthy(options[c].issuerSigningJwksUri))
        => /\ RequestsOf(c) = {}
           /\ pc[c] # "await_discovery"
           /\ (pc[c] \in {"await_jwks", "await_verify"} \/ (Done(c) /\ IsSome(validationParams[c])))
              => jwks[c] = Some([kind |-> "local",
                                 keys |-> Get(options[c].issuerSigningKeys),
                                 uri |-> NoValue])

C6_Witness ==
    \E c \in CallIds :
        /\ Done(c)
        /\ options[c].issuerSigningKeys = Some(<<"k1">>)
        /\ Truthy(options[c].issuerSigningJwksUri)
        /\ outcome[c].kind = "result"
        /\ Get(jwks[c]).kind = "local"

\* C7: with issuerSigningKeys present but empty, key resolution goes to the
\* remote JWKS of issuerSigningJwksUri if that is set and to the discovery
\* document otherwise.
C7_EmptyKeysFallThrough ==
    \A c \in CallIds :
        (/\ pc[c] \notin {"idle", "await_build"}
         /\ IsSome(validationParams[c])
         /\ Get(validationParams[c]).issuerSigningKeys = Some(<<>>))
        => IF Truthy(Get(validationParams[c]).issuerSigningJwksUri)
           THEN /\ IsSome(jwks[c])
                /\ Get(jwks[c]).kind = "remote"
                /\ Get(jwks[c]).uri = Get(validationParams[c]).issuerSigningJwksUri
           ELSE \E i \in RequestsOf(c) : net[i].kind = "discovery"

\* C8: an otherwise valid token with a c_hash but no code supplied (an at_hash
\* but no access token supplied) is accepted: validateToken returns the
\* result and the claims validator raises no error.
C8_LenientSkip ==
    \A c \in CallIds :
        (Done(c) /\ Verified(c)) =>
            LET payload == Get(jwt[c]).payload
                vp == Get(validationParams[c])
            IN  (/\ NonceRuleHolds(payload, vp)
                 /\ CHashRuleHolds(payload, vp)
                 /\ AtHashRuleHolds(payload, vp)
                 /\ \/ HasClaim(payload.c_hash) /\ ~Truthy(vp.code)
                    \/ HasClaim(payload.at_hash) /\ ~Truthy(vp.accessTokenForAtHash))
                => /\ outcome[c].kind = "result"
                   /\ Get(outcome[c].result).token = token[c]
                   /\ claims[c].state # "rejected"

C8_Witness ==
    \E c \in CallIds :
        /\ Done(c)
        /\ Verified(c)
        /\ IsTruthyString(Get(jwt[c]).payload.c_hash)
        /\ ~Truthy(Get(validationParams[c]).code)
        /\ IsTruthyString(Get(jwt[c]).payload.at_hash)
        /\ Get(validationParams[c]).accessTokenForAtHash = "at1"
        /\ outcome[c].kind = "result"
        /\ claims[c].state = "fulfilled"

\* C9: an absent or empty token fails with the missing-token error before the
\* validation parameters are built, before any key set is resolved or any
\* request issued, and before jwtVerify is called.
C9_MissingTokenFailsFirst ==
    \A c \in CallIds :
        (pc[c] # "idle" /\ token[c].form \in {"absent", "empty"})
        => /\ Done(c)
           /\ outcome[c] = Rejects("missing_token")
           /\ validationParams[c] = None
           /\ jwks[c] = None
           /\ jwtVerifyParams[c] = None
           /\ jwt[c] = None
           /\ claims[c] = ClaimsNotStarted
           /\ RequestsOf(c) = {}

C9_Witness ==
    \E c \in CallIds :
        /\ Done(c)
        /\ token[c].form = "empty"
        /\ outcome[c] = Rejects("missing_token")

\* C10: a token whose issuer is not in validIssuers never yields a result;
\* once jwtVerify is reached it fails with a verification error (the
\* unexpected-issuer one when key and signature are good), unless fetching
\* the remote JWKS failed first; and the issuer list handed to jwtVerify is
\* exactly the caller's validIssuers.
C10_IssuerNotAllowed ==
    \A c \in CallIds :
        /\ IsSome(jwtVerifyParams[c])
           => Get(jwtVerifyParams[c]).issuer = options[c].validIssuers
        /\ (/\ Done(c)
            /\ token[c].form = "jws"
            /\ token[c].iss \notin Range(options[c].validIssuers))
           => /\ outcome[c].kind = "error"
              /\ outcome[c].result = None
              /\ IsSome(jwtVerifyParams[c])
                 => /\ outcome[c].error \in VerificationErrors \cup {"jwks_fetch_failed"}
                    /\ (/\ token[c].sigOk
                        /\ outcome[c].error \notin {"no_matching_key", "jwks_fetch_failed"})
                       => outcome[c].error = "unexpected_iss"

C10_Witness ==
    \E c \in CallIds :
        /\ Done(c)
        /\ token[c].form = "jws"
        /\ token[c].sigOk
        /\ token[c].iss = "issB"
        /\ options[c].validIssuers = <<"issA", "issA">>
        /\ outcome[c] = Rejects("unexpected_iss")

----------------------------------------------------------------------------
(* Properties of the acquisition calls *)

\* C5: a failed acquireTokenByDeviceCode or acquireTokenByUsernamePassword
\* call has its error cached on its telemetry manager by the time the error
\* reaches the caller.
C5_FailureRecorded ==
    \A a \in AcquireIds :
        acqPc[a] = "failed"
        => /\ acqOutcome[a].kind = "error"
           /\ telemetry[a] = <<acqOutcome[a].value>>

\* The states of one acquisition call and the steps between them.
AcqTerminal == {"succeeded", "failed"}
AcqTransitions ==
    {<<"idle", "building_config">>,
     <<"building_config", "dispatched">>, <<"building_config", "failed">>,
     <<"dispatched", "succeeded">>, <<"dispatched", "failed">>}

\* C11: every acquisition call follows Idle -> BuildingConfig -> Dispatched ->
\* {Succeeded, Failed}: the configuration is built at most once, the grant
\* client's acquireToken is called at most once and only with a configuration
\* that was built, the call ends in one terminal state whose outcome matches
\* it, and no step leaves a terminal state.
C11_StateMachine ==
    /\ [](\A a \in AcquireIds :
            /\ configBuilds[a] <= 1
            /\ clientCalls[a] <= 1
            /\ clientCalls[a] = 1 => (configBuilds[a] = 1 /\ IsSome(clientConfig[a]))
            /\ acqPc[a] = "dispatched" => clientCalls[a] = 1
            /\ acqPc[a] = "succeeded" => (acqOutcome[a].kind = "result" /\ clientCalls[a] = 1)
            /\ acqPc[a] = "failed" => acqOutcome[a].kind = "error"
            /\ acqPc[a] \notin AcqTerminal => acqOutcome[a] = AcqPending)
    /\ [][\A a \in AcquireIds :
            /\ acqPc'[a] # acqPc[a] => <<acqPc[a], acqPc'[a]>> \in AcqTransitions
            /\ acqPc[a] \in AcqTerminal =>
                  /\ acqPc'[a] = acqPc[a]
                  /\ acqOutcome'[a] = acqOutcome[a]
                  /\ configBuilds'[a] = configBuilds[a]
                  /\ clientCalls'[a] = clientCalls[a]]_vars

C11_Witness ==
    \E a \in AcquireIds :
        /\ acqPc[a] = "succeeded"
        /\ configBuilds[a] = 1
        /\ clientCalls[a] = 1
        /\ acqOutcome[a] = AcqResolves("AuthenticationResult")

\* C12: the error a failed acquisition call hands to its caller is the very
\* error the configuration build or the grant client raised, and a failed
\* call yields neither an AuthenticationResult nor null.
C12_ErrorUnchanged ==
    \A a \in AcquireIds :
        /\ raised[a] # "none"
           => /\ acqPc[a] = "failed"
              /\ acqOutcome[a] = AcqRejects(raised[a])
        /\ acqPc[a] = "failed"
           => /\ raised[a] # "none"
              /\ acqOutcome[a].kind = "error"
              /\ acqOutcome[a].value \notin AuthResults

C12_Witness ==
    \E a \in AcquireIds :
        /\ acqPc[a] = "failed"
        /\ clientCalls[a] = 0
        /\ raised[a] = "endpoints_resolution_error"
        /\ acqOutcome[a] = AcqRejects("endpoints_resolution_error")

\* The answers call c got, as positions in responses.
ResponsesOf(c) == {i \in 1..Len(responses) : responses[i].call = c}

FetchError(kind) == IF kind = "discovery" THEN "discovery_failed" ELSE "jwks_fetch_failed"

\* C13: a failed fetch of the selected key-resolution step ends the call with
\* that step's error: after a failed discovery fetch no key set exists and no
\* JWKS request was made, and after any failed fetch the call has issued no
\* further request and received no further answer.
C13_SelectedStepFailureIsFatal ==
    \A c \in CallIds :
        \A i \in ResponsesOf(c) :
            ~responses[i].ok
            => /\ Done(c)
               /\ outcome[c] = Rejects(FetchError(responses[i].kind))
               /\ \A j \in ResponsesOf(c) : j <= i
               /\ \A k \in RequestsOf(c) :
                     Cardinality({j \in ResponsesOf(c) : j <= i}) >=
                     Cardinality({m \in RequestsOf(c) : m <= k})
               /\ responses[i].kind = "discovery"
                  => /\ jwks[c] = None
                     /\ jwtVerifyParams[c] = None
                     /\ \A k \in RequestsOf(c) : net[k].kind = "discovery"
               /\ claims[c] = ClaimsNotStarted

C13_Witness ==
    \E c \in CallIds :
        /\ ResponsesOf(c) # {}
        /\ \A i \in ResponsesOf(c) : responses[i] = Response(c, "discovery", FALSE)
        /\ outcome[c] = Rejects("discovery_failed")

\* The c_hash or at_hash of each content as OpenID Connect Core 3.3.2.11
\* defines it (for the two contents of its appendix, the values printed
\* there).
ExpectedHash(content) ==
    CASE content = "code1" ->
           <<"s","1","9","F","l","e","Z","L","S","S","u","u","Y","0","5","T","r","m","z","t","t","w">>
      [] content = "code2" ->
           <<"6","8","8","D","j","7","Y","i","-","n","8","R","Z","2","X","J","G","t","t","5","9","A">>
      [] content = "at1" ->
           <<"Q","K","U","N","1","b","-","H","x","d","H","Z","f","t","N","1","w","K","h","4","z","A">>
      [] content = "at2" ->
           <<"A","x","6","j","h","u","E","I","I","J","g","f","p","L","p","x","O","R","P","w","O","w">>
      [] content = "" ->
           <<"4","7","D","E","Q","p","j","8","H","B","S","a","-","_","T","I","m","W","-","5","J","A">>
      [] content = "jHkWEdUXMU1BwAsC4vtUsZwnNvTIxEl0z9K3vx5KF0Y" ->
           <<"7","7","Q","m","U","P","t","j","P","f","z","W","t","F","2","A","n","p","K","9","R","Q">>
      [] content = "Qcb0Orv1zh30vL1MPRsbm-diHiMwcLyZvn1arpZv-Jxf_11jnpEX3Tgfvk" ->
           <<"L","D","k","t","K","d","o","Q","a","k","3","P","k","0","c","n","X","x","C","l","t","A">>

\* C14: checkHashValue(content, hashProvided) is true exactly when
\* hashProvided is the unpadded base64url text of the left 16 bytes of the
\* SHA-256 digest of content, and the call changes no state of the validator
\* or of any call.
C14_CheckHash ==
    /\ [](IsSome(hashResult)
           => (Get(hashResult) <=> hashProvided = ExpectedHash(hashContent)))
    /\ [][UNCHANGED <<validator, valVars, acqVars, hashContent, hashProvided>>]_vars

C14_Witness ==
    /\ hashContent = "jHkWEdUXMU1BwAsC4vtUsZwnNvTIxEl0z9K3vx5KF0Y"
    /\ hashProvided = <<"7","7","Q","m","U","P","t","j","P","f","z","W","t","F","2","A","n","p","K","9","R","Q">>
    /\ hashResult = Some(TRUE)

\* Whether the network answered call c's fetches of a kind with success.
FetchOk(c, kind) ==
    \A i \in ResponsesOf(c) : responses[i].kind = kind => responses[i].ok

\* What validateToken(t, o) settles with when it is the only call, given how
\* the network answers its discovery fetch and its JWKS fetch.
SoloOutcome(t, o, discoveryOk, jwksOk) ==
    IF IsMissingToken(t) THEN Rejects("missing_token")
    ELSE
    LET vp == buildTokenValidationParameters(o)
        source == getJWKSSource(vp)
        keySet == IF source = "local" THEN createLocalJWKSet(Get(vp.issuerSigningKeys))
                  ELSE IF source = "remote" THEN createRemoteJWKSet(vp.issuerSigningJwksUri)
                  ELSE createRemoteJWKSet(DiscoveredJwksUri)
        issuer == setIssuerParams(o)
        audience == setAudienceParams(o)
    IN  IF source = "discovery" /\ ~discoveryOk THEN Rejects("discovery_failed")
        ELSE IF issuer.err # "none" THEN Rejects(issuer.err)
        ELSE IF audience.err # "none" THEN Rejects(audience.err)
        ELSE
        LET p == JwtVerifyParams(vp, Get(issuer.val), Get(audience.val))
            keys == IF keySet.kind = "local" THEN keySet.keys ELSE RemoteJwksKeys(keySet.uri)
            v == jwtVerify(t, keys, p)
        IN  IF FetchesJwks(t, keySet, p) /\ ~jwksOk THEN Rejects("jwks_fetch_failed")
            ELSE IF v.err # "none" THEN Rejects(v.err)
            ELSE Resolves(TokenValidationResponse(t, Get(v.val), vp))

\* Everything the model keeps for call c.
CallState(c) ==
    <<pc[c], token[c], options[c], validationParams[c], jwks[c], jwtVerifyParams[c], jwt[c],
      outcome[c], claims[c]>>

\* C15: two validateToken calls interleaved at their awaits are independent:
\* each settles with what it settles with when run alone on the same token,
\* options and network answers; a step of one call changes nothing another
\* call holds; no step changes a field of the validator; and the arguments
\* and parameters of a started call stay as they are.
C15_ConcurrentCallsIndependent ==
    /\ [](\A c \in CallIds :
            Done(c) => outcome[c] = SoloOutcome(token[c], options[c],
                                                FetchOk(c, "discovery"), FetchOk(c, "jwks")))
    /\ [][/\ validator' = validator
          /\ \A c, d \in CallIds :
                (c # d /\ CallState(c)' # CallState(c)) => CallState(d)' = CallState(d)
          /\ \A c \in CallIds :
                /\ pc[c] # "idle" => (token'[c] = token[c] /\ options'[c] = options[c])
                /\ IsSome(validationParams[c]) => validationParams'[c] = validationParams[c]
                /\ IsSome(jwks[c]) => jwks'[c] = jwks[c]]_vars

\* Call 2 issued a request between two requests of call 1, and the calls
\* settled differently.
C15_Witness ==
    /\ Done(1) /\ Done(2)
    /\ outcome[1].kind = "result"
    /\ outcome[2] = Rejects("jwks_fetch_failed")
    /\ \E i, j, k \in DOMAIN net :
          i < j /\ j < k /\ net[i].call = 1 /\ net[j].call = 2 /\ net[k].call = 1

\* jwtVerify was called for call c and did not return a payload.
VerificationFailed(c) == IsSome(jwtVerifyParams[c]) /\ Done(c) /\ ~Verified(c)

\* C16: validateClaims is started only on a payload jwtVerify returned in
\* the same call: a call whose verification failed has no claims check
\* started or decided, and its caller gets the error of jwtVerify (or of the
\* key fetch inside it), never an error of the claims validator.
C16_ClaimsOnlyAfterVerification ==
    \A c \in CallIds :
        /\ claims[c] # ClaimsNotStarted => Verified(c)
        /\ VerificationFailed(c)
           => /\ claims[c] = ClaimsNotStarted
              /\ outcome[c].kind = "error"
              /\ outcome[c].error \in VerificationErrors \cup {"jwks_fetch_failed"}
              /\ outcome[c].error \notin ClaimsErrors \cup {"missing_nonce"}
              /\ FetchOk(c, "jwks")
                 => LET keySet == Get(jwks[c])
                        keys == IF keySet.kind = "local" THEN keySet.keys
                                ELSE RemoteJwksKeys(keySet.uri)
                    IN  outcome[c].error =
                            jwtVerify(token[c], keys, Get(jwtVerifyParams[c])).err

\* A token with a bad signature that carries claims the options cannot
\* match: verification failed and no claims check ran.
C16_Witness ==
    \E c \in CallIds :
        /\ VerificationFailed(c)
        /\ outcome[c] = Rejects("signature_verification_failed")
        /\ token[c].c_hash = StringClaim(CHashOfCode1)
        /\ options[c].code = "code2"
        /\ claims[c] = ClaimsNotStarted

\* The list holds a non-empty string at some position.
HasNonEmptyString(list) == \E i \in DOMAIN list : Len(list[i]) > 0

\* The call got as far as the JWTVerifyOptions literal, where the two lists
\* are checked, and is over.
ListsChecked(c) == IsSome(jwks[c]) /\ Done(c)

\* C17: a validIssuers (validAudiences) list with a non-empty string at any
\* position is never rejected with the empty-issuer (empty-audience) error,
\* and a list with no non-empty string is always rejected with it once the
\* call reaches the check (the issuer list is checked first).
C17_NonEmptyStringAnywhere ==
    \A c \in CallIds :
        /\ HasNonEmptyString(options[c].validIssuers)
           => outcome[c].error # "empty_issuer"
        /\ HasNonEmptyString(options[c].validAudiences)
           => outcome[c].error # "empty_audience"
        /\ ListsChecked(c) /\ ~HasNonEmptyString(options[c].validIssuers)
           => outcome[c] = Rejects("empty_issuer")
        /\ /\ ListsChecked(c)
           /\ HasNonEmptyString(options[c].validIssuers)
           /\ ~HasNonEmptyString(options[c].validAudiences)
           => outcome[c] = Rejects("empty_audience")

\* The header is a scheme, one space and at most one more word, and the
\* scheme is a spelling of Bearer.
WellFormedBearer(r) ==
    /\ IsSome(r.authorization)
    /\ LET h == Get(r.authorization)
       IN  /\ Len(h) \in {2, 3}
           /\ h[1] \in {"Bearer", "bearer", "BEARER"}
           /\ h[2] = " "
           /\ Len(h) = 3 => h[3] # " "

\* What follows the scheme and the space of such a header.
Credential(r) ==
    LET h == Get(r.authorization) IN IF Len(h) = 3 THEN h[3] ELSE ""

HasBodyToken(r) == IsSome(r.access_token) /\ Get(r.access_token) # ""

\* C18: validateTokenFromRequest hands exactly one string to validateToken:
\* the credential of a two-part Bearer header (scheme in any case) when
\* there is one, else the non-empty access_token of the body; with such a
\* header the body's token is never validated, whatever becomes of the
\* header's; with neither it fails and validateToken is never called. The
\* call settles as that validateToken call settles.
C18_OneTokenByPriority ==
    reqPc # "idle"
    => /\ Len(reqValidated) <= 1
       /\ IF WellFormedBearer(req)
          THEN /\ reqValidated = <<Credential(req)>>
               /\ token[1] = TokenOf(Credential(req))
          ELSE IF HasBodyToken(req)
          THEN /\ reqValidated = <<Get(req.access_token)>>
               /\ token[1] = TokenOf(Get(req.access_token))
          ELSE /\ reqValidated = <<>>
               /\ pc[1] = "idle"
               /\ reqPc = "done"
               /\ reqOutcome = Rejects("no_tokens_in_header_or_body")
       /\ reqValidated # <<>>
          => /\ pc[1] # "idle"
             /\ reqPc = "done" => (Done(1) /\ reqOutcome = outcome[1])
             /\ reqPc # "done" => reqOutcome = Pending

\* A bearer header in lower case whose token fails verification, with a
\* good token in the body: the header's token alone was validated.
C18_Witness ==
    /\ req = HttpRequest(Some(<<"bearer", " ", "tokBad">>), Some("tokGood"))
    /\ reqPc = "done"
    /\ reqValidated = <<"tokBad">>
    /\ reqOutcome = Rejects("signature_verification_failed")

\* The result of call c, as a list of one entry.
ResultOf(c) == <<Get(outcome[c].result)>>

\* C19: validateTokenFromResponse fails a response whose token_type is not
\* Bearer without validating a token. For a Bearer response the id_token,
\* when present, is validated first and the access_token only after the
\* id_token's validation succeeded; the list returned holds one result per
\* present token, the id_token's first; a failed validation fails the call
\* with its error, and after a failed id_token the access_token is not
\* validated and no list is returned.
C19_IdTokenThenAccessToken ==
    respPc # "idle"
    => IF response.token_type # "Bearer"
       THEN /\ respPc = "done"
            /\ respOutcome = Rejects("only_bearer_supported")
            /\ pc[1] = "idle" /\ pc[2] = "idle"
       ELSE LET hasId == Present(response.id_token)
                hasAccess == Present(response.access_token)
            IN  /\ pc[1] # "idle" <=> hasId
                /\ hasId => token[1] = TokenOf(Get(response.id_token))
                /\ pc[2] # "idle"
                   => /\ hasAccess
                      /\ token[2] = TokenOf(Get(response.access_token))
                      /\ hasId => (Done(1) /\ outcome[1].kind = "result")
                /\ (hasId /\ outcome[1].kind = "error")
                   => /\ pc[2] = "idle"
                      /\ respOutcome.kind # "result"
                      /\ respPc = "done" => respOutcome = Rejects(outcome[1].error)
                /\ (hasAccess /\ outcome[2].kind = "error" /\ respPc = "done")
                   => respOutcome = Rejects(outcome[2].error)
                /\ respOutcome.kind = "result"
                   => Get(respOutcome.result) =
                         (IF hasId THEN ResultOf(1) ELSE <<>>)
                         \o (IF hasAccess THEN ResultOf(2) ELSE <<>>)
                /\ respPc = "done"
                   => (respOutcome.kind = "result"
                       <=> /\ hasId => outcome[1].kind = "result"
                           /\ hasAccess => outcome[2].kind = "result")

\* Both tokens present and valid: two results, the id_token's first.
C19_Witness ==
    /\ response = TokenResponse("Bearer", Some("tokGood"), Some("tokOther"))
    /\ respOutcome.kind = "result"
    /\ Len(Get(respOutcome.result)) = 2
    /\ Get(respOutcome.result)[1].token = TokenOf("tokGood")
    /\ Get(respOutcome.result)[2].token = TokenOf("tokOther")

\* C20: the middleware calls next exactly once for a request, with no
\* argument when validateTokenFromRequest succeeded and with its error when
\* it failed, also when next itself throws.
C20_NextExactlyOnce ==
    /\ Len(nextCalls) <= 1
    /\ mwPc = "done" => Len(nextCalls) = 1
    /\ \A i \in DOMAIN nextCalls :
          /\ reqPc = "done"
          /\ nextCalls[i] = IF reqOutcome.kind = "result" THEN NoArgument
                            ELSE reqOutcome.error

====
